---------------------------- MODULE Spec2Model ----------------------------
(***************************************************************************)
(* Model of tools/deletebyquery/deletebyquery.py: one run of the tool,     *)
(* from parse_args() to the final log line, against a Solr collection      *)
(* (the index) and a Cassandra table (the row store).                      *)
(*                                                                         *)
(* A Record ID is modelled by a number in 1..MaxId.  The id text stored in *)
(* a Solr document is either the canonical text of that number ("uuid")    *)
(* or text uuid.UUID() rejects ("malformed"); the order of canonical texts *)
(* is the order of the numbers.                                            *)
(*                                                                         *)
(* Every action is one blocking call of the program (a Solr request, a     *)
(* Cassandra request, one read of standard input) together with the code   *)
(* that runs up to the next blocking call.  Other writers to the index     *)
(* act between those calls.                                                *)
(***************************************************************************)
EXTENDS Integers, Sequences, FiniteSets, TLC

\* Bounds of the model.
MaxId == 3
MaxSamples == 2
MaxWrites == 1

Ids == 1..MaxId

\* Forms of the text of a document's 'id' field.  "malformed" stands for every
\* document line 168 cannot turn into a UUID: text uuid.UUID() rejects, or no
\* 'id' field at all.
IdForms == {"uuid", "malformed"}

Docs == [key : Ids, id : IdForms]

\* A command-line value: not given, given as the empty string, given as text
\* (for --jsonparams, text that json.loads accepts).
ArgVals == {"none", "empty", "text"}

\* What input() can return at a prompt; "x" stands for every other text.
Inputs == {"y", "n", "s", "", "x"}

\* cursorMark "*" and the absence of a nextCursorMark attribute.
Star == 0
NoToken == -1

VARIABLES
    args,              \* the parsed command line: query, jsonparams, rows, match
    pc,                \* position of the run
    err,               \* the exception that ended the run, "" if none
    index,             \* Solr collection: the set of committed documents
    tombs,             \* documents deleted by query and not yet committed
    table,             \* Cassandra table: the set of tile_id with a row
    query,             \* the SearchOptions object built by delete_by_query
    solr_response,     \* the last Solr response the program holds
    do_continue,       \* check_query's do_continue: the last text read at its prompt
    confirm,           \* confirm_delete's do_continue: the last text read at its prompt
    prompt,            \* the prompt on the terminal
    next_cursor_mark,  \* do_solr_query's cursor
    doc_ids,           \* do_solr_query's accumulator
    solr_docs,         \* the list do_solr_query returned, do_delete's roster
    pending,           \* DELETE statements in flight at Cassandra
    results,           \* outcome of each DELETE statement that has returned
    calls,             \* every call made to the index or the row store, in order
    log,               \* the log lines the claims are about
    samples,           \* number of 's' answers so far
    writes,            \* number of changes by other writers so far
    present            \* keys matching without interruption since the first page request

vars == <<args, pc, err, index, tombs, table, query, solr_response, do_continue,
          confirm, prompt, next_cursor_mark, doc_ids, solr_docs, pending, results,
          calls, log, samples, writes, present>>

----------------------------------------------------------------------------
\* The index (Solr), as the program consumes it.

Keys(D) == {d.key : d \in D}

\* Documents of idx the query matches.
ResultSet(idx, q) == {d \in idx : d.key \in q.match}

RECURSIVE SortAsc(_)
\* The documents of D in ascending order of the unique key.
SortAsc(D) ==
    IF D = {} THEN <<>>
    ELSE LET lo == CHOOSE d \in D : \A e \in D : d.key <= e.key
         IN  <<lo>> \o SortAsc(D \ {lo})

Take(s, n) == SubSeq(s, 1, IF Len(s) < n THEN Len(s) ELSE n)

\* The documents a search returns: with a cursorMark, the first q.rows matching
\* documents above the cursor in ascending key order; without one, the first
\* q.rows matching documents (their ranking is taken to be the key order).
PageOf(idx, q) ==
    LET after == IF q.cursorMark = NoToken THEN Star ELSE q.cursorMark
    IN  Take(SortAsc({d \in ResultSet(idx, q) : d.key > after}), q.rows)

\* The nextCursorMark of a response to a request with a cursorMark: the key of
\* the last document returned, or the cursor sent when nothing is returned.
NextMarkOf(page, cursor) ==
    IF page = <<>> THEN cursor ELSE page[Len(page)].key

\* solr_collection.search(q).  token: whether the response carries a
\* nextCursorMark attribute (a request without cursorMark never gets one).
SearchIndex(idx, q, token) ==
    LET page == PageOf(idx, q)
    IN  [numFound |-> Cardinality(ResultSet(idx, q)),
         docs |-> page,
         nextCursorMark |-> IF q.cursorMark = NoToken \/ ~token THEN NoToken
                            ELSE NextMarkOf(page, q.cursorMark)]

\* The tokens with which an index may answer a cursor request by an empty page
\* that is not the last one: positions further on with no matching document
\* between the cursor and them.
EmptyPageTokens(idx, q) ==
    {t \in Ids : /\ t > q.cursorMark
                 /\ \A d \in ResultSet(idx, q) : ~(q.cursorMark < d.key /\ d.key <= t)}

\* Such an answer: no document, the token t.
EmptyPage(idx, q, t) ==
    [numFound |-> Cardinality(ResultSet(idx, q)), docs |-> <<>>, nextCursorMark |-> t]

NoResponse == [numFound |-> 0, docs |-> <<>>, nextCursorMark |-> NoToken]

\* uuid.UUID(doc['id']): defined on canonical text only.
Parseable(d) == d.id = "uuid"
UUIDOf(d) == d.key

\* [uuid.UUID(doc['id']) for doc in docs]
UUIDsOf(docs) == [i \in 1..Len(docs) |-> UUIDOf(docs[i])]

NoQuery == [form |-> "none", match |-> {}, rows |-> 0, sort |-> FALSE, cursorMark |-> NoToken]

Range(s) == {s[i] : i \in 1..Len(s)}

\* One call to a store: the operation, its number argument (the cursorMark of a
\* page request, the tile_id of a DELETE, the commit flag of a delete by query)
\* and the SearchOptions object passed.  The numFound of a count response and
\* the key a sample request searches for are not recorded.
Call(op, arg, q) == [op |-> op, arg |-> arg, q |-> q]

----------------------------------------------------------------------------
\* Initial state: the command line as typed, the two stores as they are.

NoPrompt == [kind |-> "none", count |-> 0]

\* The sets of keys a query text may select: every key, or every key but one
\* inside the key range.
Selections == {Ids, Ids \ {2}}

\* Variant: the group is neither required nor exclusive, so every command line
\* passes parse_args.
OneGivenUnchecked(a) == TRUE

\* Exactly one of -q/--query and --jsonparams is on the command line.
OneGiven(a) == (a.query = "none") # (a.jsonparams = "none")

\* The run gets as far as a search.
Usable(a) == OneGiven(a) /\ (a.query = "text" \/ a.jsonparams = "text")

WellFormed(idx) == \A d \in idx : Parseable(d)

Init ==
    /\ args \in [query : ArgVals, jsonparams : ArgVals, rows : Ids, match : Selections]
    /\ index \in SUBSET Docs
    /\ \A d, e \in index : d.key = e.key => d = e
    /\ Cardinality({d \in index : ~Parseable(d)}) <= 1
    /\ ~Usable(args) \/ args.jsonparams = "text" =>
            /\ index = [key : Ids, id : {"uuid"}]
            /\ args.match = Ids
    /\ ~Usable(args) => args.rows = 1
    /\ table = Keys(index)
    /\ tombs = {}
    /\ pc = "parse_args"
    /\ err = ""
    /\ query = NoQuery
    /\ solr_response = NoResponse
    /\ do_continue = "unset"
    /\ confirm = "unset"
    /\ prompt = NoPrompt
    /\ next_cursor_mark = Star
    /\ doc_ids = <<>>
    /\ solr_docs = <<>>
    /\ pending = {}
    /\ results = {}
    /\ calls = <<>>
    /\ log = <<>>
    /\ samples = 0
    /\ writes = 0
    /\ present = {}

----------------------------------------------------------------------------
\* Log lines.

Line(msg, ids) == [msg |-> msg, ids |-> ids]

\* An uncaught exception ends the run.
Raise(e) == /\ err' = e
            /\ pc' = "exit"

----------------------------------------------------------------------------
\* __main__ and delete_by_query up to the confirmation gate.

\* parse_args(): -q/--query and --jsonparams form a required mutually exclusive
\* group; argparse exits with status 2 unless exactly one of them is given.
parse_args ==
    /\ pc = "parse_args"
    /\ IF OneGiven(args)
       THEN pc' = "init" /\ err' = err
       ELSE Raise("SystemExit")
    /\ UNCHANGED <<args, index, tombs, table, query, solr_response, do_continue,
                   confirm, prompt, next_cursor_mark, doc_ids, solr_docs, pending,
                   results, calls, log, samples, writes, present>>

\* init(args): builds the Solr handles and connects the Cassandra session.
init ==
    /\ pc = "init"
    /\ calls' = Append(calls, Call("connect", 0, NoQuery))
    /\ pc' = "delete_by_query"
    /\ UNCHANGED <<args, err, index, tombs, table, query, solr_response, do_continue,
                   confirm, prompt, next_cursor_mark, doc_ids, solr_docs, pending,
                   results, log, samples, writes, present>>

\* The SearchOptions object delete_by_query builds from the command line.
BuildQuery(a, form) ==
    [form |-> form, match |-> a.match, rows |-> a.rows, sort |-> FALSE,
     cursorMark |-> NoToken]

\* delete_by_query, lines 76-94: an empty string is falsy, so a value given as
\* the empty string is taken as not given.
delete_by_query ==
    /\ pc = "delete_by_query"
    /\ IF args.query = "text"
       THEN /\ query' = BuildQuery(args, "query")
            /\ pc' = "check_query"
            /\ err' = err
       ELSE IF args.jsonparams = "text"
       THEN /\ query' = BuildQuery(args, "jsonparams")
            /\ pc' = "check_query"
            /\ err' = err
       ELSE /\ Raise("RuntimeError")
            /\ query' = query
    /\ UNCHANGED <<args, index, tombs, table, solr_response, do_continue, confirm,
                   prompt, next_cursor_mark, doc_ids, solr_docs, pending, results,
                   calls, log, samples, writes, present>>

----------------------------------------------------------------------------
\* The confirmation gate: check_query.

\* Variant: the test for an empty result is "num_found < 0".
NoResultsNegative(resp) == resp.numFound < 0

\* check_query, line 127: the count query found nothing.
NoResults(resp) == resp.numFound = 0

\* check_query, lines 123-131: the count query, then the prompt or the return
\* of False (delete_by_query then logs "Exiting" and returns).
check_query ==
    /\ pc = "check_query"
    /\ LET resp == SearchIndex(index, query, TRUE)
       IN  /\ solr_response' = resp
           /\ calls' = Append(calls, Call("count", 0, query))
           /\ IF NoResults(resp)
              THEN /\ log' = log \o <<Line("Query returned 0 results", <<>>),
                                      Line("Exiting", <<>>)>>
                   /\ pc' = "exit"
                   /\ prompt' = prompt
              ELSE /\ prompt' = [kind |-> "check", count |-> resp.numFound]
                   /\ pc' = "check_prompt"
                   /\ log' = log
    /\ UNCHANGED <<args, err, index, tombs, table, query, do_continue, confirm,
                   next_cursor_mark, doc_ids, solr_docs, pending, results, samples,
                   writes, present>>

\* Variant: every text other than "n" and "s" is taken as the default answer.
CheckAnswerDefaultsToYes(inp) ==
    IF inp = "n" THEN "abort"
    ELSE IF inp = "s" THEN "sample"
    ELSE "proceed"

\* What check_query does with the text read at its prompt.
CheckAnswer(inp) ==
    IF inp \notin {"y", "n", "s", ""} THEN "again"
    ELSE IF inp = "y" \/ inp = "" THEN "proceed"
    ELSE IF inp = "n" THEN "abort"
    ELSE "sample"

\* check_query, lines 131-140: one read of input().  On "proceed" check_query
\* returns True and do_solr_query runs up to its first request (lines 97-98,
\* 148-151); on "abort" delete_by_query logs "Exiting".
check_input(inp) ==
    /\ pc = "check_prompt"
    /\ do_continue' = inp
    /\ LET a == CheckAnswer(inp)
       IN  /\ a = "sample" => samples < MaxSamples
           /\ pc' = CASE a = "again" -> "check_prompt"
                      [] a = "proceed" -> "do_solr_query"
                      [] a = "abort" -> "exit"
                      [] OTHER -> "sample"
           /\ samples' = IF a = "sample" THEN samples + 1 ELSE samples
           /\ log' = CASE a = "proceed" -> Append(log, Line("Collecting tiles ....", <<>>))
                       [] a = "abort" -> Append(log, Line("Exiting", <<>>))
                       [] OTHER -> log
           /\ IF a = "proceed"
              THEN /\ doc_ids' = <<>>
                   /\ next_cursor_mark' = Star
                   /\ query' = [query EXCEPT !.sort = TRUE]
              ELSE UNCHANGED <<doc_ids, next_cursor_mark, query>>
    /\ UNCHANGED <<args, err, index, tombs, table, solr_response, confirm, prompt,
                   solr_docs, pending, results, calls, writes, present>>

\* Variant: after a sample only the prompt is issued again.
AfterSampleReprompts == "check_prompt"

\* check_query, line 144: after a sample, check_query is entered from its top.
AfterSample == "check_query"

\* check_query, lines 141-144: one document of the held response is drawn, the
\* index is searched for its unique key, the first hit is logged, and
\* check_query is entered again.  docs[0] of an empty hit list is an IndexError.
sample ==
    /\ pc = "sample"
    /\ \E i \in 1..Len(solr_response.docs) :
          LET k == solr_response.docs[i].key
              hits == {d \in index : d.key = k}
          IN  /\ calls' = Append(calls, Call("sample", 0, NoQuery))
              /\ IF hits = {}
                 THEN Raise("IndexError") /\ log' = log
                 ELSE /\ log' = Append(log, Line("sample", <<>>))
                      /\ pc' = AfterSample
                      /\ err' = err
    /\ UNCHANGED <<args, index, tombs, table, query, solr_response, do_continue,
                   confirm, prompt, next_cursor_mark, doc_ids, solr_docs, pending,
                   results, samples, writes, present>>

----------------------------------------------------------------------------
\* The cursor paginator: do_solr_query.

\* Variant: the cursor is replaced by the response's token before the two are
\* compared, so the comparison always succeeds.
PageOutcomeCursorMovedFirst(resp, cursor) ==
    IF resp.nextCursorMark = NoToken THEN "empty" ELSE "break"

\* Variant: a document whose id does not parse is passed over instead of
\* ending the run.
PageOutcomeSkipsMalformed(resp, cursor) ==
    IF resp.nextCursorMark = NoToken THEN "empty"
    ELSE IF resp.nextCursorMark = cursor THEN "break"
    ELSE "extend"

\* Variant: when the token equals the cursor the function returns an empty
\* list instead of the accumulator.
PageOutcomeBreakReturnsEmpty(resp, cursor) ==
    IF resp.nextCursorMark = NoToken THEN "empty"
    ELSE IF resp.nextCursorMark = cursor THEN "empty"
    ELSE IF \A i \in 1..Len(resp.docs) : Parseable(resp.docs[i]) THEN "extend"
    ELSE "ValueError"

\* Variant: a response without a token ends the loop like a repeated token,
\* so the accumulator is returned.
PageOutcomeNoTokenBreaks(resp, cursor) ==
    IF resp.nextCursorMark \in {NoToken, cursor} THEN "break"
    ELSE IF \A i \in 1..Len(resp.docs) : Parseable(resp.docs[i]) THEN "extend"
    ELSE "ValueError"

\* Variant: a page without documents ends the loop whatever its token.
PageOutcomeStopsOnEmptyPage(resp, cursor) ==
    IF resp.nextCursorMark = NoToken THEN "empty"
    ELSE IF resp.nextCursorMark = cursor \/ resp.docs = <<>> THEN "break"
    ELSE IF \A i \in 1..Len(resp.docs) : Parseable(resp.docs[i]) THEN "extend"
    ELSE "ValueError"

\* What do_solr_query does with a response, lines 157-168.
PageOutcome(resp, cursor) ==
    IF resp.nextCursorMark = NoToken THEN "empty"
    ELSE IF resp.nextCursorMark = cursor THEN "break"
    ELSE IF \A i \in 1..Len(resp.docs) : Parseable(resp.docs[i]) THEN "extend"
    ELSE "ValueError"

\* do_solr_query, lines 153-154: the request carries the current cursor.
CursorRequest(q, cursor) == [q EXCEPT !.cursorMark = cursor]

\* Variant: each page replaces the accumulator.
ExtendOverwrites(acc, docs) == UUIDsOf(docs)

\* do_solr_query, line 168: the page's ids are appended to the accumulator.
Extend(acc, docs) == acc \o UUIDsOf(docs)

\* One turn of the loop of do_solr_query, lines 153-168, for the response resp
\* to the request with the current cursor.  When the function returns,
\* delete_by_query calls confirm_delete(len(solr_docs)), which issues its
\* prompt (lines 100, 112).
LoopTurn(resp) ==
    LET q == CursorRequest(query, next_cursor_mark)
        out == PageOutcome(resp, next_cursor_mark)
        returned == IF out = "empty" THEN <<>> ELSE doc_ids
    IN  /\ query' = q
        /\ solr_response' = resp
        /\ calls' = Append(calls, Call("page", next_cursor_mark, q))
        /\ present' = IF next_cursor_mark = Star
                      THEN Keys(ResultSet(index, q))
                      ELSE present
        /\ CASE out = "extend" ->
                  /\ next_cursor_mark' = resp.nextCursorMark
                  /\ doc_ids' = Extend(doc_ids, resp.docs)
                  /\ UNCHANGED <<pc, err, solr_docs, prompt>>
             [] out = "ValueError" ->
                  /\ next_cursor_mark' = resp.nextCursorMark
                  /\ Raise("ValueError")
                  /\ UNCHANGED <<doc_ids, solr_docs, prompt>>
             [] OTHER ->
                  /\ solr_docs' = returned
                  /\ prompt' = [kind |-> "confirm", count |-> Len(returned)]
                  /\ pc' = "confirm_prompt"
                  /\ UNCHANGED <<next_cursor_mark, doc_ids, err>>
        /\ UNCHANGED <<args, index, tombs, table, do_continue, confirm, pending,
                       results, log, samples, writes>>

\* do_solr_query with an index that answers each request by the next page of
\* the result set, with its token or without one.
do_solr_query ==
    /\ pc = "do_solr_query"
    /\ \E token \in BOOLEAN :
          LoopTurn(SearchIndex(index, CursorRequest(query, next_cursor_mark), token))

\* do_solr_query with an index that answers a request by an empty page and a
\* token further on.
do_solr_query_empty_page ==
    /\ pc = "do_solr_query"
    /\ \E t \in EmptyPageTokens(index, CursorRequest(query, next_cursor_mark)) :
          LoopTurn(EmptyPage(index, CursorRequest(query, next_cursor_mark), t))

----------------------------------------------------------------------------
\* The second confirmation: confirm_delete.

\* Variant: the loop ends on any text and everything but "n" confirms.
ConfirmAnswerAnythingButNo(inp) ==
    IF inp = "n" THEN "abort" ELSE "delete"

\* Variant: the empty text confirms, as it does at the count prompt.
ConfirmAnswerEmptyConfirms(inp) ==
    IF inp \notin {"y", "n", ""} THEN "again"
    ELSE IF inp \in {"y", ""} THEN "delete"
    ELSE "abort"

\* Variant: the loop compares the text with upper-case letters, so it never
\* ends on "y" or "n".
ConfirmAnswerUpperCaseOnly(inp) ==
    IF inp \notin {"Y", "N"} THEN "again"
    ELSE IF inp = "Y" THEN "delete"
    ELSE "abort"

\* What confirm_delete does with the text read at its prompt, lines 115-119.
ConfirmAnswer(inp) ==
    IF inp \notin {"y", "n"} THEN "again"
    ELSE IF inp = "y" THEN "delete"
    ELSE "abort"

\* confirm_delete, lines 112-119: one read of input().  On "delete"
\* do_delete starts (line 174); on "abort" delete_by_query logs "Exiting".
confirm_input(inp) ==
    /\ pc = "confirm_prompt"
    /\ confirm' = inp
    /\ LET a == ConfirmAnswer(inp)
       IN  /\ pc' = CASE a = "again" -> "confirm_prompt"
                      [] a = "delete" -> "prepare"
                      [] OTHER -> "exit"
           /\ log' = CASE a = "delete" -> Append(log, Line("Executing Cassandra delete...", <<>>))
                       [] a = "abort" -> Append(log, Line("Exiting", <<>>))
                       [] OTHER -> log
    /\ UNCHANGED <<args, err, index, tombs, table, query, solr_response, do_continue,
                   prompt, next_cursor_mark, doc_ids, solr_docs, pending, results,
                   calls, samples, writes, present>>

----------------------------------------------------------------------------
\* The dual-store deleter: do_delete, delete_from_cassandra, delete_from_solr.

\* execute_concurrent_with_args is called without raise_on_first_error, which
\* the driver defaults to True: the first failed statement's exception is
\* raised to the caller.
RaiseOnFirstError == TRUE

\* Variant: the argument list is built without the roster's last entry.
StatementsAllButLast(roster) ==
    [i \in 1..(Len(roster) - 1) |-> Call("row_delete", roster[i], NoQuery)]

\* The DELETE statements for a roster, in the order they are dispatched.
Statements(roster) ==
    [i \in 1..Len(roster) |-> Call("row_delete", roster[i], NoQuery)]

\* delete_from_cassandra, line 182: the statement is prepared.
prepare ==
    /\ pc = "prepare"
    /\ calls' = Append(calls, Call("prepare", 0, NoQuery))
    /\ pc' = "execute_concurrent"
    /\ UNCHANGED <<args, err, index, tombs, table, query, solr_response, do_continue,
                   confirm, prompt, next_cursor_mark, doc_ids, solr_docs, pending,
                   results, log, samples, writes, present>>

\* delete_from_cassandra, lines 184-185: one DELETE per roster entry is handed
\* to the driver, which dispatches them all (the rosters of the model are
\* shorter than the driver's concurrency window) and blocks.
execute_concurrent ==
    /\ pc = "execute_concurrent"
    /\ calls' = calls \o Statements(solr_docs)
    /\ pending' = {c.arg : c \in Range(Statements(solr_docs))}
    /\ results' = {}
    /\ pc' = "executing"
    /\ UNCHANGED <<args, err, index, tombs, table, query, solr_response, do_continue,
                   confirm, prompt, next_cursor_mark, doc_ids, solr_docs, log,
                   samples, writes, present>>

\* One statement in flight returns, in any order, with success or failure.  A
\* successful DELETE removes the row.
statement_returns(id, ok) ==
    /\ pc = "executing"
    /\ id \in pending
    /\ pending' = pending \ {id}
    /\ results' = results \cup {[id |-> id, success |-> ok]}
    /\ table' = IF ok THEN table \ {id} ELSE table
    /\ IF ~ok /\ RaiseOnFirstError
       THEN Raise("row-store exception")
       ELSE UNCHANGED <<pc, err>>
    /\ UNCHANGED <<args, index, tombs, query, solr_response, do_continue, confirm,
                   prompt, next_cursor_mark, doc_ids, solr_docs, calls, log, samples,
                   writes, present>>

\* The warnings of delete_from_cassandra, lines 187-189, in roster order.
Warnings(roster, res) ==
    LET failed == SelectSeq(roster, LAMBDA id : [id |-> id, success |-> FALSE] \in res)
    IN  [i \in 1..Len(failed) |-> Line("Could not delete tile", <<failed[i]>>)]

\* Variant: the results are not awaited.
AllReturnedNotAwaited == TRUE

\* execute_concurrent_with_args returns when no statement is in flight.
AllReturned == pending = {}

\* All statements have returned: delete_from_cassandra logs its warnings and
\* returns, do_delete logs and calls delete_from_solr (lines 187-189, 176-177).
collect_results ==
    /\ pc = "executing"
    /\ AllReturned
    /\ log' = log \o Warnings(solr_docs, results)
                  \o <<Line("Executing Solr delete...", <<>>)>>
    /\ pc' = "delete_from_solr"
    /\ UNCHANGED <<args, err, index, tombs, table, query, solr_response, do_continue,
                   confirm, prompt, next_cursor_mark, doc_ids, solr_docs, pending,
                   results, calls, samples, writes, present>>

\* delete_from_solr, line 193: delete by query without commit.  The documents
\* matching at that moment are marked; they stay searchable until the commit.
delete_from_solr ==
    /\ pc = "delete_from_solr"
    /\ calls' = Append(calls, Call("bulk_delete", 0, query))
    /\ tombs' = ResultSet(index, query)
    /\ pc' = "commit"
    /\ UNCHANGED <<args, err, index, table, query, solr_response, do_continue,
                   confirm, prompt, next_cursor_mark, doc_ids, solr_docs, pending,
                   results, log, samples, writes, present>>

\* delete_from_solr, line 194, then do_delete returns its roster and
\* delete_by_query logs it (lines 178, 102).
commit ==
    /\ pc = "commit"
    /\ calls' = Append(calls, Call("commit", 0, NoQuery))
    /\ index' = index \ tombs
    /\ tombs' = {}
    /\ log' = Append(log, Line("Deleted tile IDs", solr_docs))
    /\ pc' = "exit"
    /\ UNCHANGED <<args, err, table, query, solr_response, do_continue, confirm,
                   prompt, next_cursor_mark, doc_ids, solr_docs, pending, results,
                   samples, writes, present>>

----------------------------------------------------------------------------
\* Other writers to the index, between two calls of the run.

Running == pc \notin {"parse_args", "init", "delete_by_query", "exit"}

\* A writer adds a document (and its row) under a key not in the index.
writer_adds(d) ==
    /\ Running
    /\ writes < MaxWrites
    /\ Parseable(d)
    /\ d.key \notin Keys(index)
    /\ index' = index \cup {d}
    /\ table' = table \cup {d.key}
    /\ writes' = writes + 1
    /\ UNCHANGED <<args, pc, err, tombs, query, solr_response, do_continue, confirm,
                   prompt, next_cursor_mark, doc_ids, solr_docs, pending, results,
                   calls, log, samples, present>>

\* A writer removes a document.
writer_removes(d) ==
    /\ Running
    /\ writes < MaxWrites
    /\ d \in index
    /\ index' = index \ {d}
    /\ tombs' = tombs \ {d}
    /\ present' = present \ {d.key}
    /\ writes' = writes + 1
    /\ UNCHANGED <<args, pc, err, table, query, solr_response, do_continue, confirm,
                   prompt, next_cursor_mark, doc_ids, solr_docs, pending, results,
                   calls, log, samples>>

----------------------------------------------------------------------------

Run ==
    \/ parse_args
    \/ init
    \/ delete_by_query
    \/ check_query
    \/ \E inp \in Inputs : check_input(inp)
    \/ sample
    \/ do_solr_query
    \/ \E inp \in Inputs : confirm_input(inp)
    \/ prepare
    \/ execute_concurrent
    \/ \E id \in Ids, ok \in BOOLEAN : statement_returns(id, ok)
    \/ collect_results
    \/ delete_from_solr
    \/ commit

\* The run alone: no other writer touches the index.
Spec == Init /\ [][Run]_vars

\* The run beside other writers, from a free-text query over well-formed
\* documents.
InitWriters ==
    /\ Init
    /\ args.query = "text"
    /\ args.jsonparams = "none"
    /\ WellFormed(index)

NextWriters ==
    \/ Run
    \/ \E d \in Docs : writer_adds(d)
    \/ \E d \in Docs : writer_removes(d)

SpecWriters == InitWriters /\ [][NextWriters]_vars

\* The run alone, with an index that may also answer by empty pages that are
\* not the last one.
NextEmptyPages == Run \/ do_solr_query_empty_page

SpecEmptyPages == Init /\ [][NextEmptyPages]_vars

\* The steps of the run that read no input: each is a call that returns.
Steps ==
    \/ parse_args
    \/ init
    \/ delete_by_query
    \/ check_query
    \/ sample
    \/ do_solr_query
    \/ do_solr_query_empty_page
    \/ prepare
    \/ execute_concurrent
    \/ \E id \in Ids, ok \in BOOLEAN : statement_returns(id, ok)
    \/ collect_results
    \/ delete_from_solr
    \/ commit

\* The operator answers "y" or "n" at the count prompt, at the second prompt.
CheckDecided == \E inp \in {"y", "n"} : check_input(inp)

ConfirmDecided == \E inp \in {"y", "n"} : confirm_input(inp)

\* The run with calls that return and an operator who, whenever a prompt
\* stands again and again, eventually answers "y" or "n".
SpecTerminates ==
    /\ Init
    /\ [][NextEmptyPages]_vars
    /\ WF_vars(Steps)
    /\ SF_vars(CheckDecided)
    /\ SF_vars(ConfirmDecided)

----------------------------------------------------------------------------
\* Vocabulary of the properties.

\* The calls that delete: a row-store DELETE, the index delete by query, the
\* index commit.
DeleteOps == {"row_delete", "bulk_delete", "commit"}

Issued(ops) == {i \in 1..Len(calls) : calls[i].op \in ops}

LastCall == calls[Len(calls)]

StrictlyAscending(s) == \A i, j \in 1..Len(s) : i < j => s[i] < s[j]

Distinct(s) == \A i, j \in 1..Len(s) : i # j => s[i] # s[j]

\* do_solr_query has just returned a list built from responses that all
\* carried a cursor token.
Paginated == pc = "confirm_prompt" /\ solr_response.nextCursorMark # NoToken

----------------------------------------------------------------------------
\* C1: no delete call (row-store DELETE, index delete by query, index commit)
\* is ever issued unless the answer that ended the count-check prompt was
\* affirmative ("y" or the empty string) and the answer that ended the
\* post-pagination prompt was "y"; a run answered "n" at either prompt ends
\* with no delete call.
C1_DeleteOnlyAfterBothConfirmations ==
    /\ Issued(DeleteOps) # {} => do_continue \in {"y", ""} /\ confirm = "y"
    /\ pc = "exit" /\ (do_continue = "n" \/ confirm = "n") => Issued(DeleteOps) = {}

\* A run that sampled, confirmed twice and deleted from both stores.
C1_Witness ==
    /\ samples > 0
    /\ Issued({"row_delete"}) # {}
    /\ Issued({"commit"}) # {}

----------------------------------------------------------------------------
\* The roster has been handed to the row store.
Dispatched == Issued({"row_delete"}) # {}

Failed == {r.id : r \in {x \in results : ~x.success}}

Warned == {l.ids[1] : l \in {x \in Range(log) : x.msg = "Could not delete tile"}}

\* C2: when the row-store DELETE of some roster record fails, the run does not
\* raise: the DELETE of every roster record has been attempted, the failure is
\* logged as a warning, and the index delete by query and the commit are
\* executed afterwards.
C2_RowFailureDoesNotStopTheRun ==
    pc = "exit" /\ Failed # {} =>
        /\ err = ""
        /\ {calls[i].arg : i \in Issued({"row_delete"})} = Range(solr_docs)
        /\ Failed \subseteq Warned
        /\ Issued({"bulk_delete"}) # {}
        /\ Issued({"commit"}) # {}

\* C3: the index delete by query is issued only after every row-store DELETE
\* of the roster has returned: whenever it has been issued, no statement is
\* in flight, every roster record has an outcome, and every row-store DELETE
\* precedes it in the order of calls.
C3_IndexDeleteAfterRowStore ==
    \A b \in Issued({"bulk_delete"}) :
        /\ pending = {}
        /\ {r.id : r \in results} = Range(solr_docs)
        /\ Cardinality(Issued({"row_delete"})) = Len(solr_docs)
        /\ \A i \in Issued({"row_delete"}) : i < b

\* The index delete by query has been issued for a roster of several records.
C3_Witness ==
    /\ Issued({"bulk_delete"}) # {}
    /\ Len(solr_docs) >= 2

\* C4: over an index no one else writes to, for a result set of n > 0 records
\* and every page size, do_solr_query returns exactly n Record IDs, in
\* strictly ascending order (hence pairwise distinct), whose set is the set of
\* matching records.
C4_PaginationIsExact ==
    LET matching == Keys(ResultSet(index, query))
    IN  Paginated /\ matching # {} =>
            /\ Len(solr_docs) = Cardinality(matching)
            /\ StrictlyAscending(solr_docs)
            /\ Range(solr_docs) = matching

\* Three records fetched in pages of two: two pages with records, then the
\* terminal request.
C4_Witness ==
    /\ Paginated
    /\ Len(solr_docs) = 3
    /\ args.rows = 2
    /\ Cardinality(Issued({"page"})) = 3

\* C5: with other writers adding and removing documents between page
\* requests, the list do_solr_query returns holds every record that matched
\* from the first page request on, and holds no Record ID twice.
C5_PaginationUnderWriters ==
    Paginated =>
        /\ present \subseteq Range(solr_docs)
        /\ Distinct(solr_docs)

\* A record added by a writer after the first page request was fetched next
\* to records that matched throughout.
C5_Witness ==
    /\ Paginated
    /\ writes > 0
    /\ present # {}
    /\ \E k \in Range(solr_docs) : k \notin present /\ k \in Keys(index)

\* C6: whenever the count query reports numFound = 0, at the first entry of
\* check_query or at an entry after a sample, the run ends there without an
\* exception: no prompt is issued for that count, and no page request,
\* prepare or delete call has been made.
C6_ZeroCountAborts ==
    Len(calls) > 0 /\ LastCall.op = "count" /\ solr_response.numFound = 0 =>
        /\ pc = "exit"
        /\ err = ""
        /\ prompt = NoPrompt \/ prompt.count > 0
        /\ samples = 0 => prompt = NoPrompt
        /\ Issued({"page", "prepare"} \cup DeleteOps) = {}
        /\ SubSeq(log, Len(log) - 1, Len(log))
              = <<Line("Query returned 0 results", <<>>), Line("Exiting", <<>>)>>

\* The count query run again after a sample reports no match.
C6_Witness ==
    /\ samples > 0
    /\ Len(calls) > 0
    /\ LastCall.op = "count"
    /\ solr_response.numFound = 0

\* C7: check_query lets the run proceed to pagination only on the input "y"
\* or the empty string, and on every input outside {y, n, s, ""} it issues
\* the same prompt again: its position, the prompt, the held response, the
\* sample count and the calls made are unchanged.
C7_GateAcceptsOnlyValidInput ==
    [][pc = "check_prompt" =>
          /\ pc' = "do_solr_query" => do_continue' \in {"y", ""}
          /\ do_continue' \notin {"y", "n", "s", ""} =>
                UNCHANGED <<pc, prompt, solr_response, samples, calls, log, query,
                            index, tombs, table>>]_vars

\* An invalid text has been read and the prompt stands again.
C7_Witness ==
    /\ pc = "check_prompt"
    /\ do_continue = "x"

\* C8: whenever the count prompt stands, the last call made to the index is a
\* count query, the count in the prompt is the numFound of its response, and
\* the count query has been executed once more than there were samples: after
\* every "s" the count query runs again before the next prompt.
C8_SampleReexecutesCount ==
    pc = "check_prompt" =>
        /\ LastCall.op = "count"
        /\ prompt = [kind |-> "check", count |-> solr_response.numFound]
        /\ Cardinality(Issued({"count"})) = samples + 1
        /\ Cardinality(Issued({"sample"})) = samples

\* The prompt stands after a sample, beside a writer, showing the number of
\* documents that match now.
C8_Witness ==
    /\ pc = "check_prompt"
    /\ samples > 0
    /\ writes > 0
    /\ prompt.count = Cardinality(ResultSet(index, query))

\* The tile_ids of the row-store DELETEs, in the order of the calls.
Submitted ==
    LET d == SelectSeq(calls, LAMBDA c : c.op = "row_delete")
    IN  [i \in 1..Len(d) |-> d[i].arg]

\* C9: whatever the row-store outcomes, a run that handed a roster to the row
\* store ends by logging exactly that roster, which is the list pagination
\* produced, and a warning is logged for every record whose DELETE failed.
C9_RosterIsLogged ==
    pc = "exit" /\ Dispatched =>
        /\ solr_docs = doc_ids
        /\ Submitted = solr_docs
        /\ log[Len(log)] = Line("Deleted tile IDs", solr_docs)
        /\ Failed \subseteq Warned

----------------------------------------------------------------------------
\* The response to the last cursor request carries a token, so its documents
\* are the ones do_solr_query reads, and one of them has an id that does not
\* parse.
MalformedFetched ==
    /\ Issued({"page"}) # {}
    /\ solr_response.nextCursorMark # NoToken
    /\ \E i \in 1..Len(solr_response.docs) : ~Parseable(solr_response.docs[i])

\* C11: when a document of a fetched page has an id that does not parse, the
\* run has ended with the error of the parse: do_solr_query has returned no
\* list, the second confirmation has not been shown, and no statement has been
\* prepared and no delete call issued to either store.
C11_MalformedIdIsFatal ==
    MalformedFetched =>
        /\ pc = "exit"
        /\ err = "ValueError"
        /\ solr_docs = <<>>
        /\ prompt.kind # "confirm"
        /\ Issued(DeleteOps \cup {"prepare"}) = {}

\* The parse failed on a later page, after an earlier page contributed ids.
C11_Witness ==
    /\ pc = "exit"
    /\ err = "ValueError"
    /\ MalformedFetched
    /\ doc_ids # <<>>

\* C12: when the response to a cursor request carries a token equal to the
\* cursor just sent, the loop stops in that turn and nothing of the response
\* is appended: the list returned is the accumulator as the earlier pages left
\* it, with no id twice.
C12_RepeatedTokenStopsPagination ==
    [][(/\ pc = "do_solr_query"
        /\ calls' # calls
        /\ solr_response'.nextCursorMark = next_cursor_mark)
       => /\ pc' = "confirm_prompt"
          /\ doc_ids' = doc_ids
          /\ solr_docs' = doc_ids
          /\ Distinct(solr_docs')]_vars

\* The loop stopped on a repeated token after pages had contributed ids.
C12_Witness ==
    /\ pc = "confirm_prompt"
    /\ solr_response.nextCursorMark = next_cursor_mark
    /\ next_cursor_mark # Star
    /\ solr_docs # <<>>
    /\ Cardinality(Issued({"page"})) >= 2

\* C13: when the response to a cursor request carries no token, do_solr_query
\* returns the empty list in that turn, whatever earlier pages have put into
\* the accumulator.
C13_NoTokenReturnsEmpty ==
    [][(/\ pc = "do_solr_query"
        /\ calls' # calls
        /\ solr_response'.nextCursorMark = NoToken)
       => /\ pc' = "confirm_prompt"
          /\ solr_docs' = <<>>
          /\ doc_ids' = doc_ids]_vars

\* A response without a token came after pages that had contributed ids, and
\* the list returned is empty.
C13_Witness ==
    /\ pc = "confirm_prompt"
    /\ solr_response.nextCursorMark = NoToken
    /\ doc_ids # <<>>
    /\ solr_docs = <<>>

\* C14: the second confirmation is shown and the deleter runs only when the
\* list do_solr_query returned is non-empty; with an empty list there is no
\* second prompt and no statement prepared or delete call issued.
C14_EmptyRosterSkipsConfirmation ==
    /\ prompt.kind = "confirm" => solr_docs # <<>>
    /\ Issued(DeleteOps \cup {"prepare"}) # {} => solr_docs # <<>>

\* A run whose list was empty was confirmed at the second prompt and ended
\* after the index delete by query and its commit.
C14_Witness ==
    /\ pc = "exit"
    /\ solr_docs = <<>>
    /\ confirm = "y"
    /\ Issued({"commit"}) # {}

\* The cursors sent that are tokens of empty pages: they are the key of no
\* document of the list.
EmptyPageCursors ==
    {calls[i].arg : i \in Issued({"page"})} \ (Range(doc_ids) \cup {Star})

\* C15: a response with no document and a token other than the cursor sent
\* does not end the loop: the token becomes the cursor of the next request,
\* and the list returned in the end holds the id of every matching document
\* that lies after such a token.
C15_EmptyPageDoesNotEndPagination ==
    /\ ( /\ calls # <<>>
         /\ LastCall.op = "page"
         /\ solr_response.docs = <<>>
         /\ solr_response.nextCursorMark \notin {NoToken, LastCall.arg} )
       => /\ pc = "do_solr_query"
          /\ next_cursor_mark = solr_response.nextCursorMark
    /\ Paginated =>
          \A t \in EmptyPageCursors :
             \A d \in ResultSet(index, query) : d.key > t => d.key \in Range(solr_docs)

\* The list returned holds an id fetched after an empty page.
C15_Witness ==
    /\ Paginated
    /\ \E t \in EmptyPageCursors : \E k \in Range(solr_docs) : k > t

\* C16: a run that entered the deleter issues one index delete by query, with
\* the run's query and without a commit of its own, and after it one index
\* commit: never a commit before the delete by query, never a second one of
\* either, never a delete of a single id in the index.  A call appended by
\* delete_from_solr is the delete by query of line 193, solr.delete(query,
\* commit=False); the index receives no other delete.
C16_OneBulkDeleteThenOneCommit ==
    LET bulk == Issued({"bulk_delete"})
        commits == Issued({"commit"})
    IN  /\ Cardinality(bulk) <= 1
        /\ Cardinality(commits) <= 1
        /\ \A b \in bulk : calls[b].q = query /\ calls[b].arg = 0
        /\ \A c \in commits : \E b \in bulk : b < c
        /\ pc = "commit" => bulk # {} /\ commits = {}
        /\ pc = "exit" /\ Issued({"prepare"}) # {} =>
              Cardinality(bulk) = 1 /\ Cardinality(commits) = 1

\* A run ended after one delete by query followed by one commit.
C16_Witness ==
    /\ pc = "exit"
    /\ Cardinality(Issued({"bulk_delete"})) = 1
    /\ Cardinality(Issued({"commit"})) = 1
    /\ solr_docs # <<>>

\* C17: the two stores can diverge.  A document a writer added after the list
\* was built is removed from the index by the delete by query while its row
\* is never targeted (the witness below); and a failed row-store DELETE leaves
\* a row whose index document is removed: when the run has ended after a
\* failed DELETE, the row of the failed record is still in the row store and
\* its document is gone from the index.
C17_FailedRowDeleteLeavesOrphanRow ==
    pc = "exit" /\ Failed # {} =>
        \A k \in Failed : k \in table /\ k \notin Keys(index)

\* The delete by query has marked a matching document that a writer added
\* after the first page request and that is not in the roster: its row is in
\* the row store and no DELETE was issued for it.
C17_Witness ==
    /\ pc = "commit"
    /\ writes > 0
    /\ solr_response.nextCursorMark # NoToken
    /\ solr_docs # <<>>
    /\ \E d \in tombs :
          /\ d.key \notin present
          /\ d.key \notin Range(solr_docs)
          /\ d.key \in table
          /\ \A i \in Issued({"row_delete"}) : calls[i].arg # d.key

\* C18: at the prompt of confirm_delete the count shown is the length of the
\* list do_solr_query returned; the run goes on to the deletion exactly on the
\* input "y" and ends exactly on "n"; on every other input, the empty string
\* and "s" included, the same prompt with the same count stands again and no
\* call has been made to either store.
C18_SecondPromptAcceptsOnlyYesOrNo ==
    [][pc = "confirm_prompt" =>
          /\ prompt = [kind |-> "confirm", count |-> Len(solr_docs)]
          /\ (pc' = "prepare") = (confirm' = "y")
          /\ (pc' = "exit") = (confirm' = "n")
          /\ confirm' \notin {"y", "n"} =>
                UNCHANGED <<pc, prompt, solr_docs, calls, log, index, tombs, table>>]_vars

\* The text "s" has been read at the second prompt and the prompt stands
\* again.
C18_Witness ==
    /\ pc = "confirm_prompt"
    /\ confirm = "s"
    /\ prompt.count > 0

\* A run that was confirmed at both prompts has ended without an exception,
\* after a pagination whose responses all carried a token.
ConfirmedRunEnded ==
    /\ pc = "exit"
    /\ err = ""
    /\ do_continue \in {"y", ""}
    /\ confirm = "y"
    /\ solr_response.nextCursorMark # NoToken

\* C19: with no other writer and no failed row-store DELETE, after a run
\* confirmed at both prompts no record that matched the query is left in the
\* index or in the row store, and no step of the run removes from either store
\* a record that does not match the query.
C19_ExactlyTheMatchesAreDeleted ==
    /\ [](ConfirmedRunEnded =>
            /\ ResultSet(index, query) = {}
            /\ present \cap Keys(index) = {}
            /\ present \cap table = {}
            /\ Failed = {})
    /\ [][/\ index \ index' \subseteq ResultSet(index, query)
          /\ table \ table' \subseteq Keys(ResultSet(index, query))]_vars

\* Such a run has ended with matching records deleted and a record that does
\* not match still in both stores.
C19_Witness ==
    /\ ConfirmedRunEnded
    /\ Cardinality(present) >= 2
    /\ \E d \in index : d.key \in table /\ d.key \notin args.match

\* C20: with a stable index whose tokens move forward on every page that is
\* not the last, and an operator who eventually answers "y" or "n" at each
\* prompt, every run ends; do_solr_query sends at most one request per key and
\* one more, and when its loop stops on a repeated token exactly one request
\* was sent with the final cursor.
C20_EveryRunTerminates ==
    /\ <>(pc = "exit")
    /\ [](Cardinality(Issued({"page"})) <= MaxId + 1)
    /\ [](Paginated =>
            Cardinality({i \in Issued({"page"}) : calls[i].arg = next_cursor_mark}) = 1)

\* A run has ended after samples, answers the prompts do not accept, several
\* page requests and the deletion.
C20_Witness ==
    /\ pc = "exit"
    /\ samples > 0
    /\ Cardinality(Issued({"page"})) >= 3
    /\ Issued({"commit"}) # {}

============================================================================
